---- MODULE Spec2Model ----
(***************************************************************************)
(* Model of dependency_visualizer.py: the Packages-index parser, the       *)
(* depth-first dependency graph builder, the Graphviz serializer and the   *)
(* command-line entry point.                                               *)
(*                                                                         *)
(* Strings are sequences of one-character strings, so that split, strip    *)
(* and the f-string formatting are computed character by character.        *)
(* A dict is a function; the insertion order of the graph's keys, which    *)
(* the serializer iterates, is kept beside it in graph_order.              *)
(*                                                                         *)
(* Some helpers are preceded by a faulty variant (ResetRecordKeep,         *)
(* RootFoundAlways, AlreadyVisitedNever, MarkVisitedSkip, EnsureKeySkip,   *)
(* AddEdgeOverwrite, RecurseSkip, EdgeLineUnquoted): the helper with a     *)
(* plausible slip, under which the property that rests on it fails.        *)
(***************************************************************************)
EXTENDS Integers, Sequences, FiniteSets, TLC

VARIABLES
    pc,               \* position of the running function
    src,              \* the input text as a sequence of LinePool indices
    packages_data,    \* parse_packages_data: the text being parsed
    text_lines,       \* packages_data.split('\n')
    line_no,          \* index of the next line of the for loop
    current_package,  \* the record being accumulated
    packages_info,    \* name -> list of dependency names
    package_name,     \* build_dependency_graph: the root
    graph,            \* defaultdict(set): name -> set of names
    graph_order,      \* insertion order of the keys of graph
    visited,          \* set of names dfs has marked
    stack,            \* call stack of dfs: frames [pkg, deps, idx, at]
    expanded,         \* how many times each name's dependency loop was entered
    lines,            \* generate_graphviz_code: the list of output lines
    key_no,           \* index in graph_order of the package being serialized
    deps_left,        \* dependencies of that package not yet iterated
    graphviz_code,    \* the joined text returned by generate_graphviz_code
    config,           \* main: the dict read_config returned
    error,            \* the exception raised in the run, "none" if none
    stdout,           \* what main printed to the screen
    stderr,           \* what reached the error stream
    out_file,         \* content written to the output file
    exit_status       \* the process's exit status, -1 while running

vars == <<pc, src, packages_data, text_lines, line_no, current_package,
          packages_info, package_name, graph, graph_order, visited, stack,
          expanded, lines, key_no, deps_left, graphviz_code, config, error,
          stdout, stderr, out_file, exit_status>>

parse_vars == <<src, packages_data, text_lines, line_no, current_package>>
build_vars == <<package_name, graph, graph_order, visited, stack, expanded>>
gen_vars == <<lines, key_no, deps_left, graphviz_code>>
main_vars == <<config, error, stdout, stderr, out_file, exit_status>>

----------------------------------------------------------------------------
(* Bounds *)

\* longest input text of the parser, in lines
MaxLines == 5
\* longest dependency list of an index entry of the builder
MaxDeps == 2
\* deepest dfs call stack explored; a run of the code needs at most one
\* frame per name plus one
MaxDepth == 5
\* most keys of a graph given to the serializer
MaxKeys == 2

----------------------------------------------------------------------------
(* Python str and dict operations *)

NL == "\n"
Whitespace == {" ", "\t", NL, "\r", "\f"}

EmptyDict == [k \in {} |-> <<>>]

Put(d, k, v) == [x \in (DOMAIN d) \cup {k} |-> IF x = k THEN v ELSE d[x]]

Get(d, k, default) == IF k \in DOMAIN d THEN d[k] ELSE default

Range(s) == {s[i] : i \in 1..Len(s)}

\* index of the first occurrence of character c in s, 0 if none
Find(s, c) ==
    IF \E i \in 1..Len(s) : s[i] = c
    THEN CHOOSE i \in 1..Len(s) : s[i] = c /\ \A j \in 1..(i - 1) : s[j] # c
    ELSE 0

RECURSIVE Split(_, _)
Split(s, sep) ==
    LET k == Find(s, sep)
    IN  IF k = 0 THEN <<s>>
        ELSE <<SubSeq(s, 1, k - 1)>> \o Split(SubSeq(s, k + 1, Len(s)), sep)

RECURSIVE LStrip(_)
LStrip(s) ==
    IF s # <<>> /\ Head(s) \in Whitespace THEN LStrip(Tail(s)) ELSE s

RECURSIVE RStrip(_)
RStrip(s) ==
    IF s # <<>> /\ s[Len(s)] \in Whitespace
    THEN RStrip(SubSeq(s, 1, Len(s) - 1)) ELSE s

Strip(s) == RStrip(LStrip(s))

RECURSIVE Join(_, _)
Join(ls, sep) ==
    IF ls = <<>> THEN <<>>
    ELSE IF Len(ls) = 1 THEN ls[1]
    ELSE ls[1] \o <<sep>> \o Join(Tail(ls), sep)

----------------------------------------------------------------------------
(* parse_packages_data *)

PackageKey == <<"P", "a", "c", "k", "a", "g", "e">>
DependsKey == <<"D", "e", "p", "e", "n", "d", "s">>

\* dep.strip().split(' ')[0]
DepName(dep) == Head(Split(Strip(dep), " "))

\* [dep.strip().split(' ')[0] for dep in depends.split(',')] if depends else []
ParseDepends(depends) ==
    IF depends = <<>> THEN <<>>
    ELSE LET parts == Split(depends, ",")
         IN  [i \in 1..Len(parts) |-> DepName(parts[i])]

\* current_package = {} at the end of a record
ResetRecordKeep(cur) == cur
ResetRecord(cur) == EmptyDict

\* the body of the for loop for one line: the new <<current_package, packages_info>>
ParseLine(line, cur, info) ==
    IF Strip(line) = <<>>
    THEN IF PackageKey \in DOMAIN cur
         THEN LET depends == Get(cur, DependsKey, <<>>)
              IN  <<ResetRecord(cur), Put(info, cur[PackageKey], ParseDepends(depends))>>
         ELSE <<ResetRecord(cur), info>>
    ELSE LET k == Find(line, ":")
         IN  IF k # 0
             THEN <<Put(cur, Strip(SubSeq(line, 1, k - 1)),
                             Strip(SubSeq(line, k + 1, Len(line)))), info>>
             ELSE <<cur, info>>

parse_start ==
    /\ pc = "parse"
    /\ packages_info' = EmptyDict
    /\ current_package' = EmptyDict
    /\ text_lines' = Split(packages_data, NL)
    /\ line_no' = 1
    /\ pc' = "parse_loop"
    /\ UNCHANGED <<src, packages_data, build_vars, gen_vars, main_vars>>

parse_line ==
    /\ pc = "parse_loop"
    /\ line_no <= Len(text_lines)
    /\ LET r == ParseLine(text_lines[line_no], current_package, packages_info)
       IN  /\ current_package' = r[1]
           /\ packages_info' = r[2]
    /\ line_no' = line_no + 1
    /\ UNCHANGED <<pc, src, packages_data, text_lines, build_vars, gen_vars, main_vars>>

parse_return ==
    /\ pc = "parse_loop"
    /\ line_no > Len(text_lines)
    /\ pc' = "parsed"
    /\ UNCHANGED <<parse_vars, packages_info, build_vars, gen_vars, main_vars>>

----------------------------------------------------------------------------
(* Inputs of the parser: texts made of these lines, joined by newlines.    *)
(* Each line is listed with what it says: its kind, and for a field line   *)
(* its key, its value and, for a Depends line, the names it declares.      *)

Chars(n) == <<n>>
Name_a == Chars("a")
Name_b == Chars("b")
Name_y == Chars("y")

LinePool == <<
    \* Package: a
    [text |-> PackageKey \o <<":", " ", "a">>,
     kind |-> "field", key |-> PackageKey, value |-> Name_a, deps |-> <<>>],
    \* an indented "Package: b" with a trailing blank, as in the test's text
    [text |-> <<" ", " ">> \o PackageKey \o <<":", " ", "b", " ">>,
     kind |-> "field", key |-> PackageKey, value |-> Name_b, deps |-> <<>>],
    \* Depends: a (>= 1:2), y
    [text |-> DependsKey \o <<":", " ", "a", " ", "(", ">", "=", " ", "1", ":", "2", ")",
                              ",", " ", "y">>,
     kind |-> "field", key |-> DependsKey,
     value |-> <<"a", " ", "(", ">", "=", " ", "1", ":", "2", ")", ",", " ", "y">>,
     deps |-> <<Name_a, Name_y>>],
    \* Depends:
    [text |-> DependsKey \o <<":">>,
     kind |-> "field", key |-> DependsKey, value |-> <<>>, deps |-> <<>>],
    \* the empty line
    [text |-> <<>>,
     kind |-> "blank", key |-> <<>>, value |-> <<>>, deps |-> <<>>],
    \* a line of whitespace only
    [text |-> <<" ", "\t">>,
     kind |-> "blank", key |-> <<>>, value |-> <<>>, deps |-> <<>>],
    \* a line without a colon
    [text |-> <<"j", "u", "n", "k">>,
     kind |-> "noise", key |-> <<>>, value |-> <<>>, deps |-> <<>>]
>>

TextOf(s) == Join([i \in 1..Len(s) |-> LinePool[s[i]].text], NL)

Sources == UNION {[1..n -> 1..Len(LinePool)] : n \in 1..MaxLines}

IdleParse ==
    /\ src = <<>>
    /\ packages_data = <<>>
    /\ text_lines = <<>>
    /\ line_no = 0
    /\ current_package = EmptyDict

IdleBuild ==
    /\ package_name = <<>>
    /\ graph = EmptyDict
    /\ graph_order = <<>>
    /\ visited = {}
    /\ stack = <<>>
    /\ expanded = EmptyDict

IdleGen ==
    /\ lines = <<>>
    /\ key_no = 0
    /\ deps_left = {}
    /\ graphviz_code = <<>>

IdleMain ==
    /\ config = EmptyDict
    /\ error = "none"
    /\ stdout = <<>>
    /\ stderr = <<>>
    /\ out_file = <<>>
    /\ exit_status = -1

\* parse_packages_data(packages_data) called on a text
InitParse ==
    /\ pc = "parse"
    /\ src \in Sources
    /\ packages_data = TextOf(src)
    /\ text_lines = <<>>
    /\ line_no = 0
    /\ current_package = EmptyDict
    /\ packages_info = EmptyDict
    /\ IdleBuild /\ IdleGen /\ IdleMain

NextParse == parse_start \/ parse_line \/ parse_return

SpecParse == InitParse /\ [][NextParse]_vars

----------------------------------------------------------------------------
(* What an input says, read off src and the LinePool table alone.          *)

Max(S) == CHOOSE m \in S : \A x \in S : x <= m

\* number of lines the for loop has gone through
Consumed == IF pc = "parse" THEN 0 ELSE line_no - 1

BlankAt(j) == LinePool[src[j]].kind = "blank"
FieldAt(j, k) == LinePool[src[j]].kind = "field" /\ LinePool[src[j]].key = k

\* the last blank line before line j, 0 if none
PrevBlank(j) == Max({0} \cup {b \in 1..(j - 1) : BlankAt(b)})

\* the fields of the lines lo..hi, a later line of the same key winning
RecordFields(lo, hi) ==
    LET F == {j \in lo..hi : LinePool[src[j]].kind = "field"}
        K == {LinePool[src[j]].key : j \in F}
    IN  [k \in K |-> LinePool[src[Max({j \in F : LinePool[src[j]].key = k})]].value]

HasField(lo, hi, k) == \E j \in lo..hi : FieldAt(j, k)

RecordName(lo, hi) == LinePool[src[Max({j \in lo..hi : FieldAt(j, PackageKey)})]].value

RecordDeps(lo, hi) ==
    IF HasField(lo, hi, DependsKey)
    THEN LinePool[src[Max({j \in lo..hi : FieldAt(j, DependsKey)})]].deps
    ELSE <<>>

\* the blank lines gone through that end a record with a Package field
Committed == {b \in 1..Consumed : BlankAt(b) /\ HasField(PrevBlank(b) + 1, b - 1, PackageKey)}

NameAt(b) == RecordName(PrevBlank(b) + 1, b - 1)
DepsAt(b) == RecordDeps(PrevBlank(b) + 1, b - 1)

\* C10: record isolation. While and after parsing, current_package holds exactly the
\* fields of the lines since the last blank line (so it is empty right after a blank
\* line, a line without a colon changes nothing and nothing of an earlier record
\* stays in it), the index has exactly the names of the records with a Package field
\* that a blank line has ended, and each name maps to the dependency names of its
\* last such record's own Depends line, [] when that record has none or an empty one.
C10_RecordIsolation ==
    pc \in {"parse_loop", "parsed"} =>
        /\ current_package = RecordFields(PrevBlank(Consumed + 1) + 1, Consumed)
        /\ DOMAIN packages_info = {NameAt(b) : b \in Committed}
        /\ \A b \in Committed :
              (\A c \in Committed : c > b => NameAt(c) # NameAt(b))
                  => packages_info[NameAt(b)] = DepsAt(b)

\* C10 witness: a record with a Depends field but no Package field was dropped, and
\* the next record, with a Package field and no Depends field, was committed as []
C10_Witness ==
    /\ pc = "parsed"
    /\ \E b \in Committed :
          /\ ~HasField(PrevBlank(b) + 1, b - 1, DependsKey)
          /\ packages_info[NameAt(b)] = <<>>
          /\ PrevBlank(b) > 1
          /\ LET a == PrevBlank(b)
             IN  /\ ~HasField(PrevBlank(a) + 1, a - 1, PackageKey)
                 /\ RecordDeps(PrevBlank(a) + 1, a - 1) # <<>>

\* the lines that end a record of the whole text: every blank line, and the end of
\* the text
RecordEnds == {e \in 1..(Len(src) + 1) : e = Len(src) + 1 \/ BlankAt(e)}

\* lines lo..hi are a well-formed record with the fields Package and Depends
WellFormedRecord(lo, hi) ==
    /\ lo <= hi
    /\ \A j \in lo..hi : LinePool[src[j]].kind = "field"
    /\ Cardinality({j \in lo..hi : FieldAt(j, PackageKey)}) = 1
    /\ Cardinality({j \in lo..hi : FieldAt(j, DependsKey)}) = 1

\* C5: round-trip parse. When parse_packages_data has returned, every well-formed
\* record of the text with a Package field P and a Depends field, ended by a blank
\* line or by the end of the text, has given the entry P -> the declared names
\* (the last record of a name counting when a name is repeated).
C5_RoundTrip ==
    pc = "parsed" =>
        \A e \in RecordEnds :
            LET lo == PrevBlank(e) + 1
                hi == e - 1
            IN  (/\ WellFormedRecord(lo, hi)
                 /\ \A f \in RecordEnds :
                       (f > e /\ HasField(PrevBlank(f) + 1, f - 1, PackageKey))
                           => RecordName(PrevBlank(f) + 1, f - 1) # RecordName(lo, hi))
                    => /\ RecordName(lo, hi) \in DOMAIN packages_info
                       /\ packages_info[RecordName(lo, hi)] = RecordDeps(lo, hi)

\* the round trip of C5 restricted to the records that a blank line ends, which
\* the parser does commit
C5_RoundTripTerminated ==
    pc = "parsed" =>
        \A e \in RecordEnds \ {Len(src) + 1} :
            LET lo == PrevBlank(e) + 1
                hi == e - 1
            IN  (/\ WellFormedRecord(lo, hi)
                 /\ \A f \in RecordEnds \ {Len(src) + 1} :
                       (f > e /\ HasField(PrevBlank(f) + 1, f - 1, PackageKey))
                           => RecordName(PrevBlank(f) + 1, f - 1) # RecordName(lo, hi))
                    => /\ RecordName(lo, hi) \in DOMAIN packages_info
                       /\ packages_info[RecordName(lo, hi)] = RecordDeps(lo, hi)

----------------------------------------------------------------------------
(* build_dependency_graph *)

\* if package_name not in packages_info: raise
RootFoundAlways(name, info) == TRUE
RootFound(name, info) == name \in DOMAIN info

\* if pkg in visited: return
AlreadyVisitedNever(pkg, seen) == FALSE
AlreadyVisited(pkg, seen) == pkg \in seen

\* visited.add(pkg)
MarkVisitedSkip(seen, pkg) == seen
MarkVisited(seen, pkg) == seen \cup {pkg}

\* graph[pkg]: a defaultdict creates the missing key with an empty set
EnsureKeySkip(g, pkg) == g
EnsureKey(g, pkg) == IF pkg \in DOMAIN g THEN g ELSE Put(g, pkg, {})

\* dependencies = packages_info.get(pkg, [])
Dependencies(pkg, info) == Get(info, pkg, <<>>)

\* graph[pkg].add(dep)
AddEdgeOverwrite(g, pkg, dep) == Put(g, pkg, {dep})
AddEdge(g, pkg, dep) == Put(g, pkg, Get(g, pkg, {}) \cup {dep})

\* a call of dfs: a new frame, at the function's first line
Call(stk, name) == Append(stk, [pkg |-> name, idx |-> 0, at |-> "enter"])

\* dfs(dep), the recursive call of the loop body
RecurseSkip(stk, dep) == stk
Recurse(stk, dep) == Call(stk, dep)

\* the insertion order of the keys, after a step that may have created one key
KeyOrder(order, g) ==
    LET new == (DOMAIN g) \ Range(order)
    IN  IF new = {} THEN order ELSE Append(order, CHOOSE k \in new : TRUE)

Top == stack[Len(stack)]
Pop(stk) == SubSeq(stk, 1, Len(stk) - 1)
SetTop(stk, f) == [stk EXCEPT ![Len(stk)] = f]

\* lines 95-99 and the call of line 111
build_start ==
    /\ pc = "build"
    /\ \/ /\ ~RootFound(package_name, packages_info)
          /\ error' = "PackageNotFound"
          /\ pc' = "raised"
          /\ UNCHANGED <<graph, graph_order, visited, stack, expanded>>
       \/ /\ RootFound(package_name, packages_info)
          /\ graph' = EmptyDict
          /\ graph_order' = <<>>
          /\ visited' = {}
          /\ expanded' = EmptyDict
          /\ stack' = Call(<<>>, package_name)
          /\ pc' = "dfs"
          /\ error' = error
    /\ UNCHANGED <<parse_vars, packages_info, package_name, gen_vars,
                   config, stdout, stderr, out_file, exit_status>>

\* lines 102-106: the visited test, the marking, the key and the dependency list
dfs_enter ==
    /\ pc = "dfs"
    /\ stack # <<>>
    /\ Top.at = "enter"
    /\ \/ /\ AlreadyVisited(Top.pkg, visited)
          /\ stack' = Pop(stack)
          /\ pc' = IF stack' = <<>> THEN "built" ELSE "dfs"
          /\ UNCHANGED <<graph, graph_order, visited, expanded>>
       \/ /\ ~AlreadyVisited(Top.pkg, visited)
          /\ visited' = MarkVisited(visited, Top.pkg)
          /\ graph' = EnsureKey(graph, Top.pkg)
          /\ graph_order' = KeyOrder(graph_order, graph')
          /\ expanded' = Put(expanded, Top.pkg, Get(expanded, Top.pkg, 0) + 1)
          /\ stack' = SetTop(stack, [pkg |-> Top.pkg, idx |-> 1, at |-> "loop"])
          /\ pc' = pc
    /\ UNCHANGED <<parse_vars, packages_info, package_name, gen_vars, main_vars>>

\* lines 107-109: one iteration of the loop, up to the recursive call
dfs_iter ==
    /\ pc = "dfs"
    /\ stack # <<>>
    /\ Top.at = "loop"
    /\ Top.idx <= Len(Dependencies(Top.pkg, packages_info))
    /\ Len(stack) < MaxDepth
    /\ LET dep == Dependencies(Top.pkg, packages_info)[Top.idx]
       IN  /\ graph' = AddEdge(graph, Top.pkg, dep)
           /\ graph_order' = KeyOrder(graph_order, graph')
           /\ stack' = Recurse(SetTop(stack, [Top EXCEPT !.idx = Top.idx + 1]), dep)
    /\ UNCHANGED <<pc, parse_vars, packages_info, package_name, visited, expanded,
                   gen_vars, main_vars>>

\* the loop is over: dfs returns; line 112 when it was the outermost call
dfs_return ==
    /\ pc = "dfs"
    /\ stack # <<>>
    /\ Top.at = "loop"
    /\ Top.idx > Len(Dependencies(Top.pkg, packages_info))
    /\ stack' = Pop(stack)
    /\ pc' = IF stack' = <<>> THEN "built" ELSE "dfs"
    /\ UNCHANGED <<parse_vars, packages_info, package_name, graph, graph_order,
                   visited, expanded, gen_vars, main_vars>>

----------------------------------------------------------------------------
(* Inputs of the builder *)

NameA == Chars("A")
NameB == Chars("B")
NameC == Chars("C")
Names == {NameA, NameB, NameC}

DepLists == UNION {[1..n -> Names] : n \in 0..MaxDeps}

\* the entries tried for C when it has a record: at most one dependency
LeafLists == {<<>>} \cup {<<n>> : n \in Names}

Indices ==
    {f \in UNION {[D -> DepLists] : D \in SUBSET Names} :
        NameC \in DOMAIN f => f[NameC] \in LeafLists}

\* build_dependency_graph(package_name, packages_info) called on an index
InitBuild ==
    /\ pc = "build"
    /\ packages_info \in Indices
    /\ package_name \in Names
    /\ IdleParse /\ IdleGen /\ IdleMain
    /\ graph = EmptyDict
    /\ graph_order = <<>>
    /\ visited = {}
    /\ stack = <<>>
    /\ expanded = EmptyDict

NextBuild == build_start \/ dfs_enter \/ dfs_iter \/ dfs_return

SpecBuild == InitBuild /\ [][NextBuild]_vars

\* the interpreter keeps executing the single thread until the function ends
SpecBuildFair == SpecBuild /\ WF_vars(NextBuild)

----------------------------------------------------------------------------
(* Claims about build_dependency_graph *)

Keys == DOMAIN graph

\* the names reachable from the names of S through zero or more edges of the index
RECURSIVE ReachableFrom(_)
ReachableFrom(S) ==
    LET T == S \cup {d \in Names : \E p \in S \cap DOMAIN packages_info :
                                      d \in Range(packages_info[p])}
    IN  IF T = S THEN S ELSE ReachableFrom(T)

\* C1: with a root that is no key of the index the call raises the not-found
\* error out of its first step: it never reaches the traversal nor a returned
\* graph, and nothing is visited, recorded or expanded.
C1_NotFound ==
    package_name \notin DOMAIN packages_info =>
        /\ pc \in {"build", "raised"}
        /\ pc = "raised" => error = "PackageNotFound"
        /\ visited = {} /\ graph = EmptyDict /\ graph_order = <<>>
        /\ stack = <<>> /\ expanded = EmptyDict

\* C1 witness: the call has failed on a non-empty index
C1_Witness ==
    /\ pc = "raised"
    /\ error = "PackageNotFound"
    /\ package_name \notin DOMAIN packages_info
    /\ packages_info # EmptyDict

\* C2 as claimed: in the returned graph a dependency name absent from the index
\* is never a key.
C2_DanglingNotKey ==
    pc = "built" =>
        \A p \in Keys : \A d \in graph[p] :
            d \notin DOMAIN packages_info => d \notin Keys

\* C2 amended: in the returned graph a dependency name absent from the index is
\* recorded as a value and is also a key, with an empty dependency set (it is
\* visited, and has nothing to expand); a key absent from the index is always such
\* a dependency; for the index {A: [B]}, build('A') returns {A: {B}, B: {}}.
C2_DanglingIsEmptyKey ==
    pc = "built" =>
        /\ \A p \in Keys : \A d \in graph[p] :
              d \notin DOMAIN packages_info => (d \in Keys /\ graph[d] = {})
        /\ \A k \in Keys \ DOMAIN packages_info :
              graph[k] = {} /\ \E p \in Keys : k \in graph[p]
        /\ (packages_info = [n \in {NameA} |-> <<NameB>>] /\ package_name = NameA)
              => graph = [n \in {NameA, NameB} |-> IF n = NameA THEN {NameB} ELSE {}]

\* C2 witness: build('A') on {A: [B]} has returned
C2_Witness ==
    /\ pc = "built"
    /\ packages_info = [n \in {NameA} |-> <<NameB>>]
    /\ package_name = NameA
    /\ NameB \in graph[NameA]

\* C3: closure. In the returned graph every recorded dependency name that is a
\* key of the index is a key of the graph.
C3_Closure ==
    pc = "built" =>
        \A p \in Keys : \A d \in graph[p] :
            d \in DOMAIN packages_info => d \in Keys

\* C3 witness: a returned graph with an edge to another package of the index
C3_Witness ==
    /\ pc = "built"
    /\ \E p \in Keys : \E d \in graph[p] :
          d # p /\ d \in DOMAIN packages_info /\ d # package_name

CycleIndex == [n \in {NameA, NameB} |-> IF n = NameA THEN <<NameB>> ELSE <<NameA>>]
CycleGraph == [n \in {NameA, NameB} |-> IF n = NameA THEN {NameB} ELSE {NameA}]

\* C4: termination. A call with a root of the index always comes to return its
\* graph, self-dependencies and cycles included, and for the index
\* {A: [B], B: [A]} build('A') returns exactly {A: {B}, B: {A}}; the call stack
\* never holds more than one frame for each visited name, plus one.
C4_Terminates ==
    /\ (pc = "build" /\ package_name \in DOMAIN packages_info) ~> (pc = "built")
    /\ []((pc = "built" /\ packages_info = CycleIndex /\ package_name = NameA)
             => graph = CycleGraph)
    /\ [](Len(stack) <= Cardinality(visited) + 1)

\* C4 witness: build('A') on the two-package cycle has returned
C4_Witness ==
    /\ pc = "built"
    /\ packages_info = CycleIndex
    /\ package_name = NameA
    /\ graph = CycleGraph

\* C8: reachability. Throughout the traversal and in the result the keys of the
\* graph are exactly the visited names, each of them is reachable from the root
\* through edges of the index, and the root is a key from the first visit on.
C8_Reachability ==
    pc \in {"dfs", "built"} =>
        /\ Keys = visited
        /\ Range(graph_order) = Keys
        /\ Keys \subseteq ReachableFrom({package_name})
        /\ (visited # {} \/ pc = "built") => package_name \in Keys

\* C8 witness: a returned graph of three keys, one of them with no dependency
C8_Witness ==
    /\ pc = "built"
    /\ Cardinality(Keys) = 3
    /\ \E k \in Keys : graph[k] = {}

\* C9: no name's dependency loop is entered twice, and in the returned graph each
\* key of the index has exactly the names of its index entry as dependency set.
C9_EdgesComplete ==
    /\ \A n \in DOMAIN expanded : expanded[n] <= 1
    /\ pc = "built" =>
          \A p \in Keys \cap DOMAIN packages_info :
              graph[p] = Range(packages_info[p])

\* C9 witness: a returned graph with a self edge, an edge back to the root and a
\* package of two distinct dependencies
C9_Witness ==
    /\ pc = "built"
    /\ \E p \in Keys : p \in graph[p]
    /\ \E p \in Keys \ {package_name} : package_name \in graph[p]
    /\ \E p \in Keys : Cardinality(graph[p]) = 2

----------------------------------------------------------------------------
(* generate_graphviz_code *)

\* 'digraph G {'
Header == <<"d", "i", "g", "r", "a", "p", "h", " ", "G", " ", "{">>

\* '}'
Footer == <<"}">>

\* f'    "{pkg}" -> "{dep}";'
EdgeLineUnquoted(pkg, dep) ==
    <<" ", " ", " ", " ">> \o pkg \o <<" ", "-", ">", " ">> \o dep \o <<";">>
EdgeLine(pkg, dep) ==
    <<" ", " ", " ", " ", "\"">> \o pkg \o <<"\"", " ", "-", ">", " ", "\"">>
        \o dep \o <<"\"", ";">>

\* the set the inner loop iterates when the outer loop is at key number k
DepsOfKey(k) == IF k <= Len(graph_order) THEN graph[graph_order[k]] ELSE {}

\* line 124 and the first graph.items() step
gen_start ==
    /\ pc = "generate"
    /\ lines' = <<Header>>
    /\ key_no' = 1
    /\ deps_left' = DepsOfKey(1)
    /\ graphviz_code' = <<>>
    /\ pc' = "gen_loop"
    /\ UNCHANGED <<parse_vars, packages_info, build_vars, main_vars>>

\* lines 126-127: one iteration of the inner loop; a set is iterated in an order
\* the program does not choose
gen_edge ==
    /\ pc = "gen_loop"
    /\ key_no <= Len(graph_order)
    /\ \E dep \in deps_left :
          /\ lines' = Append(lines, EdgeLine(graph_order[key_no], dep))
          /\ deps_left' = deps_left \ {dep}
    /\ UNCHANGED <<pc, key_no, graphviz_code, parse_vars, packages_info, build_vars,
                   main_vars>>

\* line 125: the inner loop is over, the outer loop takes the next key
gen_next ==
    /\ pc = "gen_loop"
    /\ key_no <= Len(graph_order)
    /\ deps_left = {}
    /\ key_no' = key_no + 1
    /\ deps_left' = DepsOfKey(key_no + 1)
    /\ UNCHANGED <<pc, lines, graphviz_code, parse_vars, packages_info, build_vars,
                   main_vars>>

\* lines 128-129
gen_return ==
    /\ pc = "gen_loop"
    /\ key_no > Len(graph_order)
    /\ lines' = Append(lines, Footer)
    /\ graphviz_code' = Join(lines', NL)
    /\ pc' = "generated"
    /\ UNCHANGED <<key_no, deps_left, parse_vars, packages_info, build_vars, main_vars>>

----------------------------------------------------------------------------
(* Inputs of the serializer *)

Name_lc == <<"l", "c">>
GenNames == {Name_a, Name_b, Name_lc}

\* the key orders: sequences of distinct names
KeyOrders ==
    {o \in UNION {[1..n -> GenNames] : n \in 0..MaxKeys} :
        \A i, j \in 1..Len(o) : i # j => o[i] # o[j]}

\* generate_graphviz_code(graph) called on a graph
InitGen ==
    /\ pc = "generate"
    /\ graph_order \in KeyOrders
    /\ graph \in [Range(graph_order) -> SUBSET GenNames]
    /\ packages_info = EmptyDict
    /\ package_name = <<>>
    /\ visited = {}
    /\ stack = <<>>
    /\ expanded = EmptyDict
    /\ IdleParse /\ IdleGen /\ IdleMain

NextGen == gen_start \/ gen_edge \/ gen_next \/ gen_return

SpecGen == InitGen /\ [][NextGen]_vars

----------------------------------------------------------------------------
(* Claims about generate_graphviz_code *)

Quoted(n) == <<"\"">> \o n \o <<"\"">>

\* the statement of the edge p -> d, as the output format spells it
EdgeStatement(p, d) ==
    <<" ", " ", " ", " ">> \o Quoted(p) \o <<" ", "-", ">", " ">> \o Quoted(d) \o <<";">>

Pairs == UNION {{<<p, d>> : d \in graph[p]} : p \in DOMAIN graph}

KeyPos(k) == CHOOSE i \in 1..Len(graph_order) : graph_order[i] = k

\* C7: the returned text, cut at its newlines, is 'digraph G {', then exactly one
\* edge statement for each (package, dependency) pair and no other line, the
\* statements of a key before those of the keys after it, then '}': 2 lines more
\* than there are pairs, a key without dependencies giving none.
C7_OutputShape ==
    pc = "generated" =>
        LET L == Split(graphviz_code, NL)
            n == Len(L)
        IN  /\ n = 2 + Cardinality(Pairs)
            /\ L[1] = <<"d", "i", "g", "r", "a", "p", "h", " ", "G", " ", "{">>
            /\ L[n] = <<"}">>
            /\ \A pr \in Pairs :
                  Cardinality({i \in 2..(n - 1) : L[i] = EdgeStatement(pr[1], pr[2])}) = 1
            /\ \A i \in 2..(n - 1) : \E pr \in Pairs : L[i] = EdgeStatement(pr[1], pr[2])
            /\ \A i, j \in 2..(n - 1) : \A pi, pj \in Pairs :
                  (/\ i < j
                   /\ L[i] = EdgeStatement(pi[1], pi[2])
                   /\ L[j] = EdgeStatement(pj[1], pj[2]))
                      => KeyPos(pi[1]) <= KeyPos(pj[1])

\* C7 witness: the text of a graph with a key of two dependencies, then a key
\* of none, has been returned
C7_Witness ==
    /\ pc = "generated"
    /\ Len(graph_order) = 2
    /\ Cardinality(graph[graph_order[1]]) = 2
    /\ graph[graph_order[2]] = {}
    /\ Len(lines) = 4

----------------------------------------------------------------------------
(* main *)

\* what the configuration file may give as the package name
ConfigNames == {Name_a, Name_b, Name_y}

\* the texts the repository may serve
MainSources == {<<1, 3, 5>>, <<1, 3>>, <<2, 3, 5, 1, 5>>, <<1, 5>>}

\* line 132, outside the try: an exception of read_config is not caught
read_config ==
    /\ pc = "main"
    /\ \/ /\ \E n \in ConfigNames :
                config' = [path |-> "path", name |-> n, output |-> "output", url |-> "url"]
          /\ pc' = "download"
          /\ UNCHANGED <<error, stderr, exit_status>>
       \/ /\ error' = "ConfigError"
          /\ stderr' = Append(stderr, <<"Traceback", "ConfigError">>)
          /\ exit_status' = 1
          /\ pc' = "exited"
          /\ config' = config
    /\ UNCHANGED <<parse_vars, packages_info, build_vars, gen_vars, stdout, out_file>>

\* line 135: the text, or the exception of lines 52-53
download_packages_file ==
    /\ pc = "download"
    /\ \/ /\ \E s \in MainSources :
                /\ src' = s
                /\ packages_data' = TextOf(s)
          /\ pc' = "parse"
          /\ error' = error
       \/ /\ error' = "DownloadError"
          /\ pc' = "except"
          /\ UNCHANGED <<src, packages_data>>
    /\ UNCHANGED <<text_lines, line_no, current_package, packages_info, build_vars,
                   gen_vars, config, stdout, stderr, out_file, exit_status>>

\* line 137: the call of build_dependency_graph
main_build ==
    /\ pc = "parsed"
    /\ package_name' = config.name
    /\ pc' = "build"
    /\ UNCHANGED <<parse_vars, packages_info, graph, graph_order, visited, stack,
                   expanded, gen_vars, main_vars>>

\* line 138: the call of generate_graphviz_code
main_generate ==
    /\ pc = "built"
    /\ pc' = "generate"
    /\ UNCHANGED <<parse_vars, packages_info, build_vars, gen_vars, main_vars>>

\* line 140
main_print ==
    /\ pc = "generated"
    /\ stdout' = graphviz_code
    /\ pc' = "write"
    /\ UNCHANGED <<parse_vars, packages_info, build_vars, gen_vars, config, error,
                   stderr, out_file, exit_status>>

\* lines 142-143: the file is written, or open raises
main_write ==
    /\ pc = "write"
    /\ \/ /\ out_file' = graphviz_code
          /\ pc' = "return"
          /\ error' = error
       \/ /\ error' = "OSError"
          /\ pc' = "except"
          /\ out_file' = out_file
    /\ UNCHANGED <<parse_vars, packages_info, build_vars, gen_vars, config, stdout,
                   stderr, exit_status>>

\* lines 144-145: the handler prints the message and falls off the end of main
main_except ==
    /\ pc \in {"except", "raised"}
    /\ stderr' = Append(stderr, <<"Error", error>>)
    /\ pc' = "return"
    /\ UNCHANGED <<parse_vars, packages_info, build_vars, gen_vars, config, error,
                   stdout, out_file, exit_status>>

\* main returns and the interpreter ends: no sys.exit is called
main_return ==
    /\ pc = "return"
    /\ exit_status' = 0
    /\ pc' = "exited"
    /\ UNCHANGED <<parse_vars, packages_info, build_vars, gen_vars, config, error,
                   stdout, stderr, out_file>>

InitMain ==
    /\ pc = "main"
    /\ packages_info = EmptyDict
    /\ IdleParse /\ IdleBuild /\ IdleGen /\ IdleMain

NextMain ==
    \/ read_config \/ download_packages_file
    \/ parse_start \/ parse_line \/ parse_return
    \/ main_build \/ build_start \/ dfs_enter \/ dfs_iter \/ dfs_return
    \/ main_generate \/ gen_start \/ gen_edge \/ gen_next \/ gen_return
    \/ main_print \/ main_write \/ main_except \/ main_return

SpecMain == InitMain /\ [][NextMain]_vars

Spec == SpecMain

\* C6: a run of main that failed (configuration, download or decompression, root
\* not found, output file) has ended with a diagnostic of the handler on the
\* error stream and a non-zero exit status, not with an uncaught exception.
C6_FailureExit ==
    (pc = "exited" /\ error # "none") =>
        /\ stderr # <<>>
        /\ stderr[Len(stderr)][1] = "Error"
        /\ exit_status # 0

====
